---- MODULE Spec2Model ----
(***************************************************************************)
(* Model of the concurrency primitives and of the example programs of      *)
(* src/bin/12-concurrency.rs: Mutex, RwLock, channel(), sync_channel(n),   *)
(* the thread::scope example and the AtomicUsize spinlock example.         *)
(*                                                                         *)
(* The examples are independent programs.  `example` says which one runs;  *)
(* it is chosen in Init and never changes, so the reachable states are the *)
(* union of the reachable states of the programs.                          *)
(***************************************************************************)
EXTENDS Integers, Sequences, FiniteSets, TLC

\* ------------------------------------------------------------ bounds
\* Number of threads that share the Mutex / the RwLock.
NThreads == 3
\* Number of threads that own a Sender in the generic channel scenario.
NSenders == 2
\* Messages each of those threads may send.
MaxMsgs == 2
\* Largest capacity n given to sync_channel(n).
MaxCap == 2

\* ------------------------------------------------------------ program constants
\* `for _ in 0..3`: the number of threads the channel() example spawns.
NWorkers == 3

Threads == 1..NThreads
Senders == 1..NSenders
Workers == 1..NWorkers

Examples == {"mutex", "rwlock", "chan", "sync1", "channel", "scope", "spin"}

VARIABLES
    example,      \* which program runs
    mainPc,       \* position of the main thread (the receiver in "chan")
    pc,           \* position of every other thread of the running program
    mutexLocked,  \* Mutex: TRUE while some thread holds the MutexGuard
    rwWriter,     \* RwLock: TRUE while a RwLockWriteGuard exists
    rwReaders,    \* RwLock: number of RwLockReadGuards that exist
    chan,         \* the channel: kind, capacity, queue, live Senders, Receiver alive
    scount,       \* chan scenario: messages each sender thread has handed to send()
    sres,         \* chan scenario: result of each thread's last send()
    rres,         \* chan scenario: result of the receiver's last recv()
    readMsgs,     \* messages the receiver has read so far
    got,          \* example programs: the values recv() returned, in order
    panicked,     \* example programs: an unwrap() or assert_eq! failed
    dropTx,       \* channel() example: FALSE when `drop(tx)` is commented out
    spawned,      \* channel() example: threads spawned so far by the for loop
    v, x,         \* scope example: the vector and the accumulator
    idx,          \* scope example: position of `for n in &v`
    spinlock,     \* spinlock example: the AtomicUsize
    loaded        \* spinlock example: the value the last load() returned

lockVars == <<mutexLocked, rwWriter, rwReaders>>
chanVars == <<chan, scount, sres, rres, readMsgs, got, panicked, dropTx, spawned>>
scopeVars == <<v, x, idx>>
spinVars == <<spinlock, loaded>>
vars == <<example, mainPc, pc, lockVars, chanVars, scopeVars, spinVars>>

\* ============================================================ Mutex
\* Fault: a lock() that never makes its caller wait.
MutexCanAcquireBroken == TRUE

\* lock() hands out the guard only when no guard exists; otherwise the
\* caller is paused until the holder unlocks.
MutexCanAcquire == ~mutexLocked

\* A thread calls lock().
MutexLock(t) ==
    /\ example = "mutex"
    /\ pc[t] = "idle"
    /\ pc' = [pc EXCEPT ![t] = "waiting"]
    /\ UNCHANGED <<example, mainPc, lockVars, chanVars, scopeVars, spinVars>>

\* lock() returns the MutexGuard.
MutexAcquire(t) ==
    /\ example = "mutex"
    /\ pc[t] = "waiting"
    /\ MutexCanAcquire
    /\ mutexLocked' = TRUE
    /\ pc' = [pc EXCEPT ![t] = "holding"]
    /\ UNCHANGED <<example, mainPc, rwWriter, rwReaders, chanVars, scopeVars, spinVars>>

\* The critical operation is done: the guard is released.
MutexUnlock(t) ==
    /\ example = "mutex"
    /\ pc[t] = "holding"
    /\ mutexLocked' = FALSE
    /\ pc' = [pc EXCEPT ![t] = "idle"]
    /\ UNCHANGED <<example, mainPc, rwWriter, rwReaders, chanVars, scopeVars, spinVars>>

\* ============================================================ RwLock
\* read() succeeds unless the data is locked for writing.
RwCanRead == ~rwWriter

\* Fault: a write() that does not wait for the readers.
RwCanWriteBroken == ~rwWriter

\* write() succeeds only when nobody has locked the data at all.
RwCanWrite == ~rwWriter /\ rwReaders = 0

\* A thread calls RwLock.read().
RwRead(t) ==
    /\ example = "rwlock"
    /\ pc[t] = "idle"
    /\ pc' = [pc EXCEPT ![t] = "wantRead"]
    /\ UNCHANGED <<example, mainPc, lockVars, chanVars, scopeVars, spinVars>>

\* read() returns the RwLockReadGuard.
RwReadAcquire(t) ==
    /\ example = "rwlock"
    /\ pc[t] = "wantRead"
    /\ RwCanRead
    /\ rwReaders' = rwReaders + 1
    /\ pc' = [pc EXCEPT ![t] = "reading"]
    /\ UNCHANGED <<example, mainPc, mutexLocked, rwWriter, chanVars, scopeVars, spinVars>>

\* The RwLockReadGuard is dropped.
RwReadUnlock(t) ==
    /\ example = "rwlock"
    /\ pc[t] = "reading"
    /\ rwReaders' = rwReaders - 1
    /\ pc' = [pc EXCEPT ![t] = "idle"]
    /\ UNCHANGED <<example, mainPc, mutexLocked, rwWriter, chanVars, scopeVars, spinVars>>

\* A thread calls RwLock.write().
RwWrite(t) ==
    /\ example = "rwlock"
    /\ pc[t] = "idle"
    /\ pc' = [pc EXCEPT ![t] = "wantWrite"]
    /\ UNCHANGED <<example, mainPc, lockVars, chanVars, scopeVars, spinVars>>

\* write() returns the RwLockWriteGuard.
RwWriteAcquire(t) ==
    /\ example = "rwlock"
    /\ pc[t] = "wantWrite"
    /\ RwCanWrite
    /\ rwWriter' = TRUE
    /\ pc' = [pc EXCEPT ![t] = "writing"]
    /\ UNCHANGED <<example, mainPc, mutexLocked, rwReaders, chanVars, scopeVars, spinVars>>

\* The RwLockWriteGuard is dropped.
RwWriteUnlock(t) ==
    /\ example = "rwlock"
    /\ pc[t] = "writing"
    /\ rwWriter' = FALSE
    /\ pc' = [pc EXCEPT ![t] = "idle"]
    /\ UNCHANGED <<example, mainPc, mutexLocked, rwReaders, chanVars, scopeVars, spinVars>>

\* ============================================================ channels
\* A channel as created by channel() (kind "async", unbounded queue) or by
\* sync_channel(n) (kind "sync", at most n queued messages).  `senders` counts
\* the Sender handles that have not been dropped.
Channel(kind, n, handles) ==
    [kind |-> kind, cap |-> n, buf |-> <<>>, senders |-> handles, rxAlive |-> TRUE]

NoChan == [kind |-> "none", cap |-> 0, buf |-> <<>>, senders |-> 0, rxAlive |-> FALSE]

\* A rendezvous channel is sync_channel(0).
IsRendezvous(c) == c.kind = "sync" /\ c.cap = 0

\* Fault: a queue that takes one message more than its capacity.
HasRoomOffByOne(c) == c.kind = "async" \/ Len(c.buf) < c.cap + 1

\* Room for one more queued message: always on channel(), below the
\* capacity on sync_channel(n).
HasRoom(c) == c.kind = "async" \/ Len(c.buf) < c.cap

\* Fault: a send() that never blocks, whatever the capacity.
SendOutcomeNeverBlocks(c) ==
    IF ~c.rxAlive THEN "SendError" ELSE "Ok"

\* What send() does on channel c: SendError once the Receiver is gone,
\* success when the message can be queued, and otherwise the sender is
\* blocked (on a rendezvous channel until the receiver takes the message).
SendOutcome(c) ==
    IF ~c.rxAlive THEN "SendError"
    ELSE IF HasRoom(c) THEN "Ok"
    ELSE "blocked"

\* Fault: a recv() that reports RecvError as soon as every Sender has been
\* dropped, whatever is still queued.
RecvOutcomeErrWhenSendersGone(c) ==
    IF c.senders = 0 THEN "RecvError"
    ELSE IF c.buf # <<>> THEN "Ok"
    ELSE "blocked"

\* What recv() does on channel c: a queued message is delivered first (the
\* sync_channel(1) example asserts that message 2 is received although its
\* sender may already have ended); with nothing queued, RecvError once every
\* Sender has been dropped, and otherwise the receiver waits.
RecvOutcome(c) ==
    IF c.buf # <<>> THEN "Ok"
    ELSE IF c.senders = 0 THEN "RecvError"
    ELSE "blocked"

\* send() puts the message at the end of the queue.
Enqueue(c, m) == [c EXCEPT !.buf = Append(@, m)]

\* Fault: a recv() that leaves the message it returns in the queue.
DequeueKeeps(c) == c

\* recv() frees one place in the queue.
Dequeue(c) == [c EXCEPT !.buf = Tail(@)]

CloneSender(c) == [c EXCEPT !.senders = @ + 1]
DropSender(c) == [c EXCEPT !.senders = @ - 1]
DropReceiver(c) == [c EXCEPT !.rxAlive = FALSE]

\* ------------------------------------------------------------ "chan"
\* NSenders threads own one Sender each, the main thread owns the Receiver.
\* The k-th message of sender s is <<s, k>>.
CurMsg(s) == <<s, scount[s]>>

\* Sender thread s calls send() with its next message.
SendCall(s) ==
    /\ example = "chan"
    /\ pc[s] = "ready"
    /\ scount[s] < MaxMsgs
    /\ scount' = [scount EXCEPT ![s] = @ + 1]
    /\ sres' = [sres EXCEPT ![s] = "pending"]
    /\ pc' = [pc EXCEPT ![s] = "sending"]
    /\ UNCHANGED <<example, mainPc, lockVars, chan, rres, readMsgs, got, panicked,
                   dropTx, spawned, scopeVars, spinVars>>

\* send() queues the message and returns Ok.
SendOk(s) ==
    /\ example = "chan"
    /\ pc[s] = "sending"
    /\ SendOutcome(chan) = "Ok"
    /\ chan' = Enqueue(chan, CurMsg(s))
    /\ sres' = [sres EXCEPT ![s] = "Ok"]
    /\ pc' = [pc EXCEPT ![s] = "ready"]
    /\ UNCHANGED <<example, mainPc, lockVars, scount, rres, readMsgs, got, panicked,
                   dropTx, spawned, scopeVars, spinVars>>

\* send() returns SendError.
SendFail(s) ==
    /\ example = "chan"
    /\ pc[s] = "sending"
    /\ SendOutcome(chan) = "SendError"
    /\ sres' = [sres EXCEPT ![s] = "SendError"]
    /\ pc' = [pc EXCEPT ![s] = "ready"]
    /\ UNCHANGED <<example, mainPc, lockVars, chan, scount, rres, readMsgs, got,
                   panicked, dropTx, spawned, scopeVars, spinVars>>

\* Sender thread s ends: its Sender is dropped.
SenderEnd(s) ==
    /\ example = "chan"
    /\ pc[s] = "ready"
    /\ chan' = DropSender(chan)
    /\ pc' = [pc EXCEPT ![s] = "ended"]
    /\ UNCHANGED <<example, mainPc, lockVars, scount, sres, rres, readMsgs, got,
                   panicked, dropTx, spawned, scopeVars, spinVars>>

\* The receiver thread calls recv().
RecvCall ==
    /\ example = "chan"
    /\ mainPc = "ready"
    /\ mainPc' = "receiving"
    /\ rres' = "pending"
    /\ UNCHANGED <<example, pc, lockVars, chan, scount, sres, readMsgs, got, panicked,
                   dropTx, spawned, scopeVars, spinVars>>

\* recv() returns the message at the head of the queue.
RecvOk ==
    /\ example = "chan"
    /\ mainPc = "receiving"
    /\ RecvOutcome(chan) = "Ok"
    /\ readMsgs' = readMsgs \cup {Head(chan.buf)}
    /\ chan' = Dequeue(chan)
    /\ rres' = "Ok"
    /\ mainPc' = "ready"
    /\ UNCHANGED <<example, pc, lockVars, scount, sres, got, panicked, dropTx, spawned,
                   scopeVars, spinVars>>

\* Rendezvous: recv() takes the message straight from the blocked sender s,
\* whose send() returns only now.
RecvHandoff(s) ==
    /\ example = "chan"
    /\ mainPc = "receiving"
    /\ IsRendezvous(chan)
    /\ pc[s] = "sending"
    /\ SendOutcome(chan) = "blocked"
    /\ readMsgs' = readMsgs \cup {CurMsg(s)}
    /\ rres' = "Ok"
    /\ mainPc' = "ready"
    /\ sres' = [sres EXCEPT ![s] = "Ok"]
    /\ pc' = [pc EXCEPT ![s] = "ready"]
    /\ UNCHANGED <<example, lockVars, chan, scount, got, panicked, dropTx, spawned,
                   scopeVars, spinVars>>

\* recv() returns RecvError.
RecvFail ==
    /\ example = "chan"
    /\ mainPc = "receiving"
    /\ RecvOutcome(chan) = "RecvError"
    /\ rres' = "RecvError"
    /\ mainPc' = "ready"
    /\ UNCHANGED <<example, pc, lockVars, chan, scount, sres, readMsgs, got, panicked,
                   dropTx, spawned, scopeVars, spinVars>>

\* The thread that owns the Receiver ends.
ReceiverEnd ==
    /\ example = "chan"
    /\ mainPc = "ready"
    /\ chan' = DropReceiver(chan)
    /\ mainPc' = "ended"
    /\ UNCHANGED <<example, pc, lockVars, scount, sres, rres, readMsgs, got, panicked,
                   dropTx, spawned, scopeVars, spinVars>>

\* ------------------------------------------------------------ "sync1"
\* The sync_channel(1) example.  pc[1] is the spawned thread.
\*   main:   send1 -> spawn -> recv1 -> recv2 -> end
\*   thread: unspawned -> send2 -> exit -> done
\* `sender.send(1).unwrap()`
S1MainSend ==
    /\ example = "sync1"
    /\ mainPc = "send1"
    /\ SendOutcome(chan) # "blocked"
    /\ IF SendOutcome(chan) = "Ok"
       THEN chan' = Enqueue(chan, 1) /\ UNCHANGED panicked
       ELSE panicked' = TRUE /\ UNCHANGED chan
    /\ mainPc' = "spawn"
    /\ UNCHANGED <<example, pc, lockVars, scount, sres, rres, readMsgs, got, dropTx,
                   spawned, scopeVars, spinVars>>

\* `thread::spawn(move|| {...})`: the Sender moves into the new thread.
S1Spawn ==
    /\ example = "sync1"
    /\ mainPc = "spawn"
    /\ mainPc' = "recv1"
    /\ pc' = [pc EXCEPT ![1] = "send2"]
    /\ UNCHANGED <<example, lockVars, chanVars, scopeVars, spinVars>>

\* `sender.send(2).unwrap()` in the spawned thread.
S1ThreadSend ==
    /\ example = "sync1"
    /\ pc[1] = "send2"
    /\ SendOutcome(chan) # "blocked"
    /\ IF SendOutcome(chan) = "Ok"
       THEN chan' = Enqueue(chan, 2) /\ UNCHANGED panicked
       ELSE panicked' = TRUE /\ UNCHANGED chan
    /\ pc' = [pc EXCEPT ![1] = "exit"]
    /\ UNCHANGED <<example, mainPc, lockVars, scount, sres, rres, readMsgs, got, dropTx,
                   spawned, scopeVars, spinVars>>

\* The spawned thread ends and drops the Sender.
S1ThreadExit ==
    /\ example = "sync1"
    /\ pc[1] = "exit"
    /\ chan' = DropSender(chan)
    /\ pc' = [pc EXCEPT ![1] = "done"]
    /\ UNCHANGED <<example, mainPc, lockVars, scount, sres, rres, readMsgs, got,
                   panicked, dropTx, spawned, scopeVars, spinVars>>

\* `assert_eq!(receiver.recv().unwrap(), k)` for k = 1 and then k = 2.
S1MainRecv(k) ==
    /\ example = "sync1"
    /\ mainPc = (IF k = 1 THEN "recv1" ELSE "recv2")
    /\ RecvOutcome(chan) # "blocked"
    /\ IF RecvOutcome(chan) = "Ok"
       THEN /\ got' = Append(got, Head(chan.buf))
            /\ chan' = Dequeue(chan)
            /\ panicked' = (panicked \/ Head(chan.buf) # k)
       ELSE /\ panicked' = TRUE
            /\ UNCHANGED <<got, chan>>
    /\ mainPc' = (IF k = 1 THEN "recv2" ELSE "end")
    /\ UNCHANGED <<example, pc, lockVars, scount, sres, rres, readMsgs, dropTx,
                   spawned, scopeVars, spinVars>>

\* ------------------------------------------------------------ "channel"
\* The channel() example.  pc[w] is the w-th spawned thread.
\*   main:   loop -> drop -> recv -> end
\*   thread: unspawned -> send -> exit -> done
\* One turn of `for _ in 0..3`: clone tx and spawn a thread that owns the clone.
ChSpawn ==
    /\ example = "channel"
    /\ mainPc = "loop"
    /\ spawned < NWorkers
    /\ chan' = CloneSender(chan)
    /\ spawned' = spawned + 1
    /\ pc' = [pc EXCEPT ![spawned + 1] = "send"]
    /\ UNCHANGED <<example, mainPc, lockVars, scount, sres, rres, readMsgs, got,
                   panicked, dropTx, scopeVars, spinVars>>

\* The for loop is over.
ChLoopEnd ==
    /\ example = "channel"
    /\ mainPc = "loop"
    /\ spawned = NWorkers
    /\ mainPc' = "drop"
    /\ UNCHANGED <<example, pc, lockVars, chanVars, scopeVars, spinVars>>

\* Fault: the main thread goes on to the receive loop without dropping tx.
ChDropKeeps ==
    /\ example = "channel"
    /\ mainPc = "drop"
    /\ mainPc' = "recv"
    /\ UNCHANGED <<example, pc, lockVars, chanVars, scopeVars, spinVars>>

\* `drop(tx)`, or nothing when the statement is commented out.
ChDrop ==
    /\ example = "channel"
    /\ mainPc = "drop"
    /\ chan' = (IF dropTx THEN DropSender(chan) ELSE chan)
    /\ mainPc' = "recv"
    /\ UNCHANGED <<example, pc, lockVars, scount, sres, rres, readMsgs, got, panicked,
                   dropTx, spawned, scopeVars, spinVars>>

\* `tx.send("ok").unwrap()` in thread w.
ChThreadSend(w) ==
    /\ example = "channel"
    /\ pc[w] = "send"
    /\ SendOutcome(chan) # "blocked"
    /\ IF SendOutcome(chan) = "Ok"
       THEN chan' = Enqueue(chan, "ok") /\ UNCHANGED panicked
       ELSE panicked' = TRUE /\ UNCHANGED chan
    /\ pc' = [pc EXCEPT ![w] = "exit"]
    /\ UNCHANGED <<example, mainPc, lockVars, scount, sres, rres, readMsgs, got, dropTx,
                   spawned, scopeVars, spinVars>>

\* Thread w ends: the cloned tx is dropped within the thread.
ChThreadExit(w) ==
    /\ example = "channel"
    /\ pc[w] = "exit"
    /\ chan' = DropSender(chan)
    /\ pc' = [pc EXCEPT ![w] = "done"]
    /\ UNCHANGED <<example, mainPc, lockVars, scount, sres, rres, readMsgs, got,
                   panicked, dropTx, spawned, scopeVars, spinVars>>

\* One evaluation of `while let Ok(msg) = rx.recv()`: print the message and
\* go round again, or leave the loop on Err.
ChRecv ==
    /\ example = "channel"
    /\ mainPc = "recv"
    /\ RecvOutcome(chan) # "blocked"
    /\ IF RecvOutcome(chan) = "Ok"
       THEN /\ got' = Append(got, Head(chan.buf))
            /\ chan' = Dequeue(chan)
            /\ mainPc' = "recv"
       ELSE /\ mainPc' = "end"
            /\ UNCHANGED <<got, chan>>
    /\ UNCHANGED <<example, pc, lockVars, scount, sres, rres, readMsgs, panicked,
                   dropTx, spawned, scopeVars, spinVars>>

\* ============================================================ thread::scope
\* pc[1] is the thread that prints v.len(), pc[2] the one that iterates v.
\*   main:   spawn1 -> spawn2 -> join -> push -> assert -> end
\*   pc[1]:  unspawned -> len -> done
\*   pc[2]:  unspawned -> iter -> add -> done
\* Fault: a scope that ends without waiting for its threads.
ScopeJoinedNoWait == TRUE

\* The scope ends only when every thread spawned inside it has completed.
ScopeJoined == pc[1] = "done" /\ pc[2] = "done"

\* `s.spawn(...)`, first and second.
ScSpawn(k) ==
    /\ example = "scope"
    /\ mainPc = (IF k = 1 THEN "spawn1" ELSE "spawn2")
    /\ mainPc' = (IF k = 1 THEN "spawn2" ELSE "join")
    /\ pc' = [pc EXCEPT ![k] = (IF k = 1 THEN "len" ELSE "iter")]
    /\ UNCHANGED <<example, lockVars, chanVars, scopeVars, spinVars>>

\* `println!("length: {}", v.len())`
ScLen ==
    /\ example = "scope"
    /\ pc[1] = "len"
    /\ pc' = [pc EXCEPT ![1] = "done"]
    /\ UNCHANGED <<example, mainPc, lockVars, chanVars, scopeVars, spinVars>>

\* `for n in &v { println!("{n}") }`: one element, or the end of the loop.
ScIter ==
    /\ example = "scope"
    /\ pc[2] = "iter"
    /\ IF idx < Len(v)
       THEN idx' = idx + 1 /\ UNCHANGED pc
       ELSE pc' = [pc EXCEPT ![2] = "add"] /\ UNCHANGED idx
    /\ UNCHANGED <<example, mainPc, lockVars, chanVars, v, x, spinVars>>

\* `x += v[0] + v[2]`
ScAdd ==
    /\ example = "scope"
    /\ pc[2] = "add"
    /\ x' = x + v[1] + v[3]
    /\ pc' = [pc EXCEPT ![2] = "done"]
    /\ UNCHANGED <<example, mainPc, lockVars, chanVars, v, idx, spinVars>>

\* The closing brace of thread::scope.
ScJoin ==
    /\ example = "scope"
    /\ mainPc = "join"
    /\ ScopeJoined
    /\ mainPc' = "push"
    /\ UNCHANGED <<example, pc, lockVars, chanVars, scopeVars, spinVars>>

\* `v.push(4)`
ScPush ==
    /\ example = "scope"
    /\ mainPc = "push"
    /\ v' = Append(v, 4)
    /\ mainPc' = "assert"
    /\ UNCHANGED <<example, pc, lockVars, chanVars, x, idx, spinVars>>

\* `assert_eq!(x, v.len())`
ScAssert ==
    /\ example = "scope"
    /\ mainPc = "assert"
    /\ panicked' = (x # Len(v))
    /\ mainPc' = "end"
    /\ UNCHANGED <<example, pc, lockVars, chan, scount, sres, rres, readMsgs, got,
                   dropTx, spawned, scopeVars, spinVars>>

\* ============================================================ spinlock
\* pc[1] is the spawned thread.
\*   main:   spawn -> load -> (spin -> load)* -> join -> end
\*   thread: unspawned -> store -> exit -> done
\* `thread::spawn(move|| {...})`
SpSpawn ==
    /\ example = "spin"
    /\ mainPc = "spawn"
    /\ mainPc' = "load"
    /\ pc' = [pc EXCEPT ![1] = "store"]
    /\ UNCHANGED <<example, lockVars, chanVars, scopeVars, spinVars>>

\* `spinlock_clone.store(0, Ordering::Release)`
SpStore ==
    /\ example = "spin"
    /\ pc[1] = "store"
    /\ spinlock' = 0
    /\ pc' = [pc EXCEPT ![1] = "exit"]
    /\ UNCHANGED <<example, mainPc, lockVars, chanVars, scopeVars, loaded>>

\* The spawned thread ends.
SpExit ==
    /\ example = "spin"
    /\ pc[1] = "exit"
    /\ pc' = [pc EXCEPT ![1] = "done"]
    /\ UNCHANGED <<example, mainPc, lockVars, chanVars, scopeVars, spinVars>>

\* Fault: the loop condition inverted.
SpinAgainInverted(val) == val = 0

\* The loop goes on while the loaded value is not 0.
SpinAgain(val) == val # 0

\* `while spinlock.load(Ordering::Acquire) != 0`
SpLoad ==
    /\ example = "spin"
    /\ mainPc = "load"
    /\ loaded' = spinlock
    /\ mainPc' = (IF SpinAgain(spinlock) THEN "spin" ELSE "join")
    /\ UNCHANGED <<example, pc, lockVars, chanVars, scopeVars, spinlock>>

\* `hint::spin_loop()`
SpSpin ==
    /\ example = "spin"
    /\ mainPc = "spin"
    /\ mainPc' = "load"
    /\ UNCHANGED <<example, pc, lockVars, chanVars, scopeVars, spinVars>>

\* `thread.join().unwrap()`
SpJoin ==
    /\ example = "spin"
    /\ mainPc = "join"
    /\ pc[1] = "done"
    /\ mainPc' = "end"
    /\ UNCHANGED <<example, pc, lockVars, chanVars, scopeVars, spinVars>>

\* ============================================================ specification
InitPc(e) ==
    CASE e = "mutex" -> [t \in Threads |-> "idle"]
      [] e = "rwlock" -> [t \in Threads |-> "idle"]
      [] e = "chan" -> [s \in Senders |-> "ready"]
      [] e = "sync1" -> [t \in {1} |-> "unspawned"]
      [] e = "channel" -> [w \in Workers |-> "unspawned"]
      [] e = "scope" -> [t \in {1, 2} |-> "unspawned"]
      [] e = "spin" -> [t \in {1} |-> "unspawned"]

InitMainPc(e) ==
    CASE e = "chan" -> "ready"
      [] e = "sync1" -> "send1"
      [] e = "channel" -> "loop"
      [] e = "scope" -> "spawn1"
      [] e = "spin" -> "spawn"
      [] OTHER -> "none"

\* The channels the programs create: in "chan" channel() or sync_channel(n)
\* for n in 0..MaxCap, each sender thread holding one Sender; sync_channel(1)
\* and channel() in the two examples, with the one Sender they return.
InitChans(e) ==
    CASE e = "chan" -> {Channel("async", 0, NSenders)}
                          \cup {Channel("sync", n, NSenders) : n \in 0..MaxCap}
      [] e = "sync1" -> {Channel("sync", 1, 1)}
      [] e = "channel" -> {Channel("async", 0, 1)}
      [] OTHER -> {NoChan}

Init ==
    /\ example \in Examples
    /\ mainPc = InitMainPc(example)
    /\ pc = InitPc(example)
    /\ mutexLocked = FALSE
    /\ rwWriter = FALSE
    /\ rwReaders = 0
    /\ chan \in InitChans(example)
    /\ scount = [s \in Senders |-> 0]
    /\ sres = [s \in Senders |-> "none"]
    /\ rres = "none"
    /\ readMsgs = {}
    /\ got = <<>>
    /\ panicked = FALSE
    /\ dropTx \in (IF example = "channel" THEN BOOLEAN ELSE {TRUE})
    /\ spawned = 0
    /\ v = (IF example = "scope" THEN <<1, 2, 3>> ELSE <<>>)
    /\ x = 0
    /\ idx = 0
    /\ spinlock = (IF example = "spin" THEN 1 ELSE 0)
    /\ loaded = 0

\* The steps of the main thread of the example programs.
ExampleMain ==
    \/ S1MainSend
    \/ S1Spawn
    \/ \E k \in {1, 2} : S1MainRecv(k)
    \/ ChSpawn
    \/ ChLoopEnd
    \/ ChDrop
    \/ ChRecv
    \/ \E k \in {1, 2} : ScSpawn(k)
    \/ ScJoin
    \/ ScPush
    \/ ScAssert
    \/ SpSpawn
    \/ SpLoad
    \/ SpSpin
    \/ SpJoin

\* The steps of the threads the example programs spawn.
ExampleThread(t) ==
    \/ t = 1 /\ S1ThreadSend
    \/ t = 1 /\ S1ThreadExit
    \/ ChThreadSend(t)
    \/ ChThreadExit(t)
    \/ t = 1 /\ ScLen
    \/ t = 2 /\ ScIter
    \/ t = 2 /\ ScAdd
    \/ t = 1 /\ SpStore
    \/ t = 1 /\ SpExit

Next ==
    \/ \E t \in Threads : MutexLock(t)
    \/ \E t \in Threads : MutexAcquire(t)
    \/ \E t \in Threads : MutexUnlock(t)
    \/ \E t \in Threads : RwRead(t)
    \/ \E t \in Threads : RwReadAcquire(t)
    \/ \E t \in Threads : RwReadUnlock(t)
    \/ \E t \in Threads : RwWrite(t)
    \/ \E t \in Threads : RwWriteAcquire(t)
    \/ \E t \in Threads : RwWriteUnlock(t)
    \/ \E s \in Senders : SendCall(s)
    \/ \E s \in Senders : SendOk(s)
    \/ \E s \in Senders : SendFail(s)
    \/ \E s \in Senders : SenderEnd(s)
    \/ RecvCall
    \/ RecvOk
    \/ \E s \in Senders : RecvHandoff(s)
    \/ RecvFail
    \/ ReceiverEnd
    \/ ExampleMain
    \/ \E t \in Workers : ExampleThread(t)

Spec == Init /\ [][Next]_vars

\* The example programs alone, under fair scheduling: every thread that can
\* take a step eventually takes one, since the operating system schedules
\* every runnable thread.
ExamplePrograms == {"sync1", "channel", "scope", "spin"}

InitExamples == Init /\ example \in ExamplePrograms

NextExamples ==
    \/ ExampleMain
    \/ \E t \in Workers : ExampleThread(t)

FairSpec ==
    /\ InitExamples
    /\ [][NextExamples]_vars
    /\ WF_vars(ExampleMain)
    /\ \A t \in Workers : WF_vars(ExampleThread(t))

\* ============================================================ properties
MutexHolders == {t \in Threads : pc[t] = "holding"}

\* C1: at most one thread holds the MutexGuard, and a thread that called
\* lock() is handed the guard only in a state where no other thread holds it.
C1_MutexExclusive ==
    /\ [](example = "mutex" => Cardinality(MutexHolders) <= 1)
    /\ [][example = "mutex" =>
            \A t \in Threads :
                (pc[t] = "waiting" /\ pc'[t] = "holding") => MutexHolders = {}]_vars

\* One thread holds the guard while another one waits in lock().
C1_Witness ==
    /\ example = "mutex"
    /\ \E t, u \in Threads : pc[t] = "holding" /\ pc[u] = "waiting"

\* C2: while a thread holds the write lock no other thread holds a read or a
\* write lock, and while a thread holds a read lock every other thread that
\* asked for a read lock can take it.
C2_RwLockExclusion ==
    example = "rwlock" =>
        /\ \A t \in Threads : pc[t] = "writing" =>
               \A u \in Threads \ {t} : pc[u] \notin {"reading", "writing"}
        /\ \A t \in Threads : pc[t] = "reading" =>
               \A u \in Threads \ {t} : pc[u] = "wantRead" => ENABLED RwReadAcquire(u)

\* Two threads read at the same time while a third waits for the write lock.
C2_Witness ==
    /\ example = "rwlock"
    /\ \E t, u, w \in Threads :
           t # u /\ pc[t] = "reading" /\ pc[u] = "reading" /\ pc[w] = "wantWrite"

IsSyncN == example = "chan" /\ chan.kind = "sync" /\ chan.cap >= 1

\* C3: on sync_channel(n), n >= 1, at most n messages are queued; no send()
\* succeeds in a state where n messages are queued; each recv() that returns
\* a message takes exactly one message off the queue.
C3_SyncChannelBounded ==
    /\ [](IsSyncN => Len(chan.buf) <= chan.cap)
    /\ [][IsSyncN =>
            /\ \A s \in Senders :
                   (pc[s] = "sending" /\ Len(chan.buf) = chan.cap)
                       => ~(pc'[s] = "ready" /\ sres'[s] = "Ok")
            /\ (mainPc = "receiving" /\ rres' = "Ok")
                   => Len(chan'.buf) = Len(chan.buf) - 1]_vars

\* sync_channel(2) is full, a sender is blocked in send() and the receiver
\* has already taken a message.
C3_Witness ==
    /\ IsSyncN
    /\ chan.cap = 2
    /\ Len(chan.buf) = 2
    /\ readMsgs # {}
    /\ \E s \in Senders : pc[s] = "sending"

C5_Rendezvous ==
    (example = "chan" /\ IsRendezvous(chan)) =>
        /\ chan.buf = <<>>
        /\ \A s \in Senders :
               (pc[s] # "sending" /\ sres[s] = "Ok") => CurMsg(s) \in readMsgs

\* A sender has got past send() after the receiver read its message, while
\* another sender is still blocked in send().
C5_Witness ==
    /\ example = "chan"
    /\ IsRendezvous(chan)
    /\ \E s, t \in Senders :
           /\ pc[s] = "ready" /\ sres[s] = "Ok" /\ CurMsg(s) \in readMsgs
           /\ pc[t] = "sending"

\* C6: in the channel() example the receive loop is left only when every
\* Sender has been dropped; with drop(tx) the loop is eventually left; without
\* it the main thread never leaves the loop and stays in recv() for ever.
C6_ChannelLoop ==
    /\ [](example = "channel" /\ mainPc = "end" => chan.senders = 0)
    /\ [](example = "channel" /\ ~dropTx => mainPc # "end")
    /\ (example = "channel" /\ dropTx) ~> (mainPc = "end")
    /\ (example = "channel" /\ ~dropTx) ~> [](mainPc = "recv")

\* With drop(tx) the program has ended after printing the three messages.
C6_Witness ==
    /\ example = "channel"
    /\ dropTx
    /\ mainPc = "end"
    /\ Len(got) = NWorkers

IsAsync == example = "chan" /\ chan.kind = "async"

\* A step in which send() of thread s returns.
SendReturns(s) == pc[s] = "sending" /\ pc'[s] # "sending"

\* A step in which recv() returns.
RecvReturns == mainPc = "receiving" /\ mainPc' # "receiving"

C8_ScopeJoin ==
    example = "scope" =>
        /\ mainPc \in {"push", "assert", "end"} => (pc[1] = "done" /\ pc[2] = "done")
        /\ v # <<1, 2, 3>> => (pc[1] = "done" /\ pc[2] = "done")
        /\ ~panicked
        /\ mainPc = "end" => x = Len(v)

\* The example has run to its end with x = 4 = v.len().
C8_Witness ==
    /\ example = "scope"
    /\ mainPc = "end"
    /\ x = 4
    /\ v = <<1, 2, 3, 4>>

\* C9: in the spinlock example the main thread is past its loop only if the
\* spawned thread has stored 0, and under fair scheduling the program ends.
C9_Spinlock ==
    /\ [](example = "spin" /\ mainPc \in {"join", "end"}
             => (spinlock = 0 /\ pc[1] \in {"exit", "done"}))
    /\ (example = "spin") ~> (mainPc = "end")

\* The main thread has loaded 0, left the loop and joined the thread.
C9_Witness ==
    /\ example = "spin"
    /\ mainPc = "end"
    /\ pc[1] = "done"
    /\ loaded = 0
====
